---- MODULE Spec2Model ----
(***************************************************************************)
(* A model of the expression evaluator lkxy/eval: the linear-program       *)
(* evaluator Expr.Eval (src/engine.go) and the recursive-descent parser    *)
(* (src/parse.go).                                                         *)
(*                                                                         *)
(* Values are strings: "T" and "F" are the booleans, "n1" is the integer   *)
(* 1, "nil" is Go's nil interface value; error values start with "err".    *)
(* Program indices are 0-based as in the source; sequences are 1-based, so *)
(* nodes[i] of the source is NodeAt(nodes, i).                             *)
(***************************************************************************)
EXTENDS Integers, Sequences, FiniteSets, TLC

VARIABLES
  ast,        \* the syntax tree the Program was laid out from ("none": the zero Expr)
  fastEval,   \* CompileOptions[FastEvaluation] at layout time
  labNodes,   \* Expr.labNodes: the linear program (with its parentIdx entry as field par)
  maxStackSize, \* Expr.maxStackSize
  ctxs,       \* per evaluation: the Ctx (selector values and the cancellation handle)
  evs,        \* per evaluation: the local state of one Expr.Eval call
  psource,    \* parser: p.source, the characters of the source text
  callerConf, \* the CompileConfig object the caller handed to newParser
  pconf,      \* parser: the CompileConfig p.conf points to
  ptokens,    \* parser: p.tokens, as lex left them
  pidx,       \* parser: p.idx
  pstack,     \* parser: the open parseExpression frames (car and children so far)
  pres,       \* parser: the finished root, or the error
  ppc         \* parser: position in parser.parseAstTree

evalVars == <<ast, fastEval, labNodes, maxStackSize, ctxs, evs>>
parseVars == <<psource, callerConf, pconf, ptokens, pidx, pstack, pres, ppc>>
vars == <<ast, fastEval, labNodes, maxStackSize, ctxs, evs,
          psource, callerConf, pconf, ptokens, pidx, pstack, pres, ppc>>

-----------------------------------------------------------------------------
(* Bounds of the model.                                                    *)

\* Largest number of syntax-tree nodes of a compiled expression.
MaxNodes == 5
\* Largest number of syntax-tree nodes when two evaluations run concurrently.
MaxConcNodes == 3
\* Largest number of tokens of the sequences the parenthesis check is run on.
MaxParenLen == 4
\* Largest number of operands of the compound forms the parser is run on.
MaxArgs == 4
\* Largest number of units (fragments and plain comments) of a comment header.
MaxUnits == 3
\* Largest number of characters of the sources the lexer is run on.
MaxSrcLen == 4
\* Largest number of operands of the wide expressions.
MaxWidth == 3

-----------------------------------------------------------------------------
(* Node flags, src/engine.go:21-34.                                        *)

nodeTypeMask == 7
constant == 1
selector == 2
operator == 3
fastOperator == 4
cond == 5
debug == 7
scIfFalse == 8
scIfTrue == 16

\* flag & nodeTypeMask
NodeType(n) == n.flag % (nodeTypeMask + 1)
\* flag & bit == bit, for a single-bit mask
HasFlag(n, bit) == (n.flag \div bit) % 2 = 1

NodeAt(nodes, i) == nodes[i + 1]

-----------------------------------------------------------------------------
(* Values, selectors and operators (the registries are external to the     *)
(* core; these are the ones the model exercises).                          *)

NilValue == "nil"
NoErr == "nil"
IsBool(v) == v \in {"T", "F"}
IsErr(e) == e # NoErr

SelNames == {"a", "b"}
SelValues == {"T", "F", "errGet"}

\* Selector.Get(key, name): the value, or an error
CtxGet(ctx, name) ==
  IF ctx.sel[name] = "errGet"
  THEN [res |-> NilValue, err |-> "errGet"]
  ELSE [res |-> ctx.sel[name], err |-> NoErr]

AllBool(params) == \A j \in 1..Len(params) : IsBool(params[j])

\* the operator functions, by name
ApplyOp(name, params) ==
  CASE name = "and" ->
         IF AllBool(params)
         THEN [res |-> IF \A j \in 1..Len(params) : params[j] = "T" THEN "T" ELSE "F",
               err |-> NoErr]
         ELSE [res |-> NilValue, err |-> "errOp"]
    [] name = "or" ->
         IF AllBool(params)
         THEN [res |-> IF \E j \in 1..Len(params) : params[j] = "T" THEN "T" ELSE "F",
               err |-> NoErr]
         ELSE [res |-> NilValue, err |-> "errOp"]
    [] name = "not" ->
         IF Len(params) = 1 /\ AllBool(params)
         THEN [res |-> IF params[1] = "T" THEN "F" ELSE "T", err |-> NoErr]
         ELSE [res |-> NilValue, err |-> "errOp"]
    [] name = "eq" ->
         IF Len(params) = 2
         THEN [res |-> IF params[1] = params[2] THEN "T" ELSE "F", err |-> NoErr]
         ELSE [res |-> NilValue, err |-> "errOp"]
    [] name = "if" -> \* src/parse.go:553-559
         IF Len(params) = 0 THEN [res |-> NilValue, err |-> "panic"]
         ELSE IF IsBool(params[1])
         THEN [res |-> IF params[1] = "T" THEN "F" ELSE "T", err |-> NoErr]
         ELSE [res |-> NilValue, err |-> "errOp"]
    [] name = "fi" -> [res |-> "T", err |-> NoErr] \* src/parse.go:567-569
    [] OTHER -> [res |-> NilValue, err |-> "errOp"]

-----------------------------------------------------------------------------
(* Syntax trees (astNode, src/parse.go:49-55) and the set the model draws  *)
(* its expressions from.                                                   *)

AstNode(flag, value, kids) == [flag |-> flag, value |-> value, kids |-> kids]

\* the synthetic "fi" child, src/parse.go:563-571
FiNode == AstNode(cond, "fi", << >>)

Leaves ==
  {AstNode(constant, "n1", << >>)} \cup {AstNode(selector, s, << >>) : s \in SelNames}

RECURSIVE Trees(_), Forest(_, _)
\* the trees with exactly n syntax-tree nodes
Trees(n) ==
  IF n = 1 THEN Leaves
  ELSE {AstNode(operator, "not", <<k>>) : k \in Trees(n - 1)}
       \cup UNION {{AstNode(operator, op, ks) : op \in {"and", "or"}, ks \in Forest(n - 1, c)}
                   : c \in 2..(n - 1)}
       \cup (IF n >= 5
             THEN {AstNode(cond, "if", Append(ks, FiNode)) : ks \in Forest(n - 2, 3)}
             ELSE {})
\* the sequences of c trees with n nodes in all
Forest(n, c) ==
  IF c = 0 THEN (IF n = 0 THEN {<< >>} ELSE {})
  ELSE UNION {{<<t>> \o f : t \in Trees(k), f \in Forest(n - k, c - 1)}
              : k \in 1..(n - (c - 1))}

TreesUpTo(n) == UNION {Trees(k) : k \in 1..n}

\* further trees: operators without operands, and a chain of two short circuits
\* that ends inside the expression
ExtraTrees ==
  LET a == AstNode(selector, "a", << >>)
      b == AstNode(selector, "b", << >>)
      none == AstNode(operator, "and", << >>)
  IN { none,
       AstNode(operator, "not", <<none>>),
       AstNode(operator, "or", <<a, none>>),
       AstNode(operator, "and", <<AstNode(operator, "or", << >>), b, a>>),
       AstNode(operator, "eq", <<a, b>>),
       AstNode(operator, "eq", <<AstNode(constant, "n1", << >>), b>>),
       AstNode(operator, "not", <<AstNode(operator, "eq", <<a, b>>)>>),
       AstNode(operator, "not",
               <<AstNode(operator, "and", <<AstNode(operator, "and", <<a, b>>), a>>)>>) }

-----------------------------------------------------------------------------
(* Layout of a tree into the linear program (spec.md 4.5; the layout code  *)
(* is not part of src/).  Nodes are emitted in post-order; a two-leaf      *)
(* operator is fused into a fastOperator triple when fast evaluation is    *)
(* on.  A node's osTop is the stack top before its subtree runs, so its    *)
(* result is stored at os[osTop+1]; the children of "and" / "or" carry the *)
(* short-circuit flag and jump to their parent (-1 when it is the root).   *)

LabNode(flag, child, scPos, osTop, value, par) ==
  [flag |-> flag, child |-> child, scPos |-> scPos, osTop |-> osTop,
   value |-> value, par |-> par]

IsLeaf(a) == a.flag \in {constant, selector}

RECURSIVE Size(_), SizeFrom(_, _)
Size(a) == 1 + SizeFrom(a.kids, 1)
SizeFrom(kids, j) == IF j > Len(kids) THEN 0 ELSE Size(kids[j]) + SizeFrom(kids, j + 1)

Fusable(a, fast) ==
  /\ fast
  /\ a.flag = operator
  /\ Len(a.kids) = 2
  /\ IsLeaf(a.kids[1]) /\ IsLeaf(a.kids[2])

KidFlags(a) ==
  IF a.flag = operator /\ a.value = "and" THEN scIfFalse
  ELSE IF a.flag = operator /\ a.value = "or" THEN scIfTrue
  ELSE 0

RECURSIVE Emit(_, _, _, _, _, _, _), EmitKids(_, _, _, _, _, _, _)
Emit(a, start, depth, sc, scPos, par, fast) ==
  IF Len(a.kids) = 0
  THEN << LabNode(a.flag + sc, 0, scPos, depth, a.value, par) >>
  ELSE IF Fusable(a, fast)
  THEN << LabNode(fastOperator + sc, 2, scPos, depth, a.value, par),
          LabNode(a.kids[1].flag, 0, -1, depth, a.kids[1].value, start),
          LabNode(a.kids[2].flag, 0, -1, depth, a.kids[2].value, start) >>
  ELSE LET self == start + Size(a) - 1 IN
       EmitKids(a, 1, start, depth, self, par = -1, fast)
         \o << LabNode(a.flag + sc, Len(a.kids), scPos, depth, a.value, par) >>
EmitKids(a, j, start, depth, self, isRoot, fast) ==
  IF j > Len(a.kids) THEN << >>
  ELSE Emit(a.kids[j], start, depth, KidFlags(a),
            IF KidFlags(a) # 0 /\ ~isRoot THEN self ELSE -1, self, fast)
         \o EmitKids(a, j + 1, start + Size(a.kids[j]), depth + 1, self, isRoot, fast)

\* the zero Expr has no nodes
NoTree == AstNode(0, "none", << >>)

Layout(a, fast) == IF a.flag = 0 THEN << >> ELSE Emit(a, 0, -1, 0, -1, -1, fast)

RECURSIVE MaxOsTop(_, _)
MaxOsTop(nodes, j) ==
  IF j > Len(nodes) THEN -2
  ELSE LET r == MaxOsTop(nodes, j + 1) IN IF nodes[j].osTop > r THEN nodes[j].osTop ELSE r

\* the largest number of values on the stack
StackSize(nodes) == MaxOsTop(nodes, 1) + 2

-----------------------------------------------------------------------------
(* Expr.Eval, src/engine.go:94-196.  The local state of one call is a      *)
(* record: pc ("run" in the loop, "done" after a return, "panic" after a   *)
(* run-time panic, "spin" in a short-circuit loop without exit), the loop  *)
(* index i, osTop, the value stack os, the last result res, the returned   *)
(* value and error (ret, err), and two history fields: log, the lookups,   *)
(* operator calls and constant loads made so far with their node and the   *)
(* state of the cancellation handle, and steps, the number of loop         *)
(* iterations.                                                             *)

\* engine.go:104-111
OsLen(m, size) == IF m <= 8 THEN 8 ELSE IF m <= 16 THEN 16 ELSE size

\* engine.go:95-118
EvalStart(nodes, m) ==
  [pc |-> "run", i |-> 0, osTop |-> -1,
   os |-> [j \in 1..OsLen(m, Len(nodes)) |-> NilValue],
   res |-> NilValue, ret |-> NilValue, err |-> NoErr,
   log |-> << >>, steps |-> 0]

Event(kind, node, r, ctx) ==
  [kind |-> kind, node |-> node, res |-> r.res, err |-> r.err, cancelled |-> ctx.cancelled,
   params |-> << >>]
\* the call of the operator of node with params
OpEvent(node, params, r, ctx) == [Event("op", node, r, ctx) EXCEPT !.params = params]

InOs(s, j) == j \in 0..(Len(s.os) - 1)

\* a return statement of Eval
Return(s, res, err, log) ==
  [s EXCEPT !.pc = "done", !.res = res, !.ret = res, !.err = err, !.log = log,
            !.steps = @ + 1]

Panic(s, log) == [s EXCEPT !.pc = "panic", !.log = log, !.steps = @ + 1]

\* engine.go:182-183: the condition of the short-circuit loop
ScTaken(curt, res) ==
  \/ res = "F" /\ HasFlag(curt, scIfFalse)
  \/ res = "T" /\ HasFlag(curt, scIfTrue)

\* engine.go:181-191: follows scPos while the flag of the current node matches.
\* ret is set when scPos is -1; spin is set when the loop has made more hops than
\* the program has nodes, that is, when it revisits a node and so never exits.
RECURSIVE ScFollow(_, _, _, _, _, _)
ScFollow(nodes, i, curt, osTop, res, hops) ==
  IF IsBool(res) /\ ScTaken(curt, res)
  THEN IF curt.scPos = -1
       THEN [ret |-> TRUE, spin |-> FALSE, i |-> -1, osTop |-> osTop]
       ELSE IF hops > Len(nodes)
       THEN [ret |-> FALSE, spin |-> TRUE, i |-> i, osTop |-> osTop]
       ELSE ScFollow(nodes, curt.scPos, NodeAt(nodes, curt.scPos),
                     NodeAt(nodes, curt.scPos).osTop, res, hops + 1)
  ELSE [ret |-> FALSE, spin |-> FALSE, i |-> i, osTop |-> osTop]

\* a slip: line 188, curt = nodes[i], left out, so the loop tests the same node again
ScLoopStaleCurt(nodes, i, curt, osTop, res) ==
  IF IsBool(res) /\ ScTaken(curt, res)
  THEN IF curt.scPos = -1
       THEN [ret |-> TRUE, spin |-> FALSE, i |-> -1, osTop |-> osTop]
       ELSE [ret |-> FALSE, spin |-> TRUE, i |-> curt.scPos, osTop |-> osTop]
  ELSE [ret |-> FALSE, spin |-> FALSE, i |-> i, osTop |-> osTop]

ScLoop(nodes, i, curt, osTop, res) == ScFollow(nodes, i, curt, osTop, res, 1)

\* a slip: line 189, osTop = curt.osTop, left out
PushKeepOsTop(nodes, s, i, curt, osTop, res, log) ==
  LET j == ScLoop(nodes, i, curt, osTop, res) IN
  IF j.ret THEN Return(s, res, NoErr, log)
  ELSE IF j.spin THEN [s EXCEPT !.pc = "spin", !.log = log, !.steps = @ + 1]
  ELSE IF ~InOs(s, osTop + 1) THEN Panic(s, log)
  ELSE [s EXCEPT !.os[osTop + 2] = res, !.osTop = osTop + 1, !.i = j.i + 1,
                 !.res = res, !.log = log, !.steps = @ + 1]

\* engine.go:181-194: short-circuit check, push of the result, i++
Push(nodes, s, i, curt, osTop, res, log) ==
  LET j == ScLoop(nodes, i, curt, osTop, res) IN
  IF j.ret THEN Return(s, res, NoErr, log)
  ELSE IF j.spin THEN [s EXCEPT !.pc = "spin", !.log = log, !.steps = @ + 1]
  ELSE IF ~InOs(s, j.osTop + 1) THEN Panic(s, log)
  ELSE [s EXCEPT !.os[j.osTop + 2] = res, !.osTop = j.osTop + 1, !.i = j.i + 1,
                 !.res = res, !.log = log, !.steps = @ + 1]

\* engine.go:128-136 and 139-147: an inline operand of a fastOperator
Operand(ctx, child) ==
  IF NodeType(child) = selector THEN CtxGet(ctx, child.value)
  ELSE [res |-> child.value, err |-> NoErr]

OperandLog(ctx, child, at, r, log) ==
  IF NodeType(child) = selector THEN Append(log, Event("get", at, r, ctx)) ELSE log

\* a slip: the error of the first inline lookup (lines 132-134) is not checked
EvalFastOperatorUnchecked(nodes, ctx, s, curt) ==
  IF s.i + 2 > Len(nodes) - 1 THEN Panic(s, s.log)
  ELSE
    LET c1 == NodeAt(nodes, s.i + 1)
        r1 == Operand(ctx, c1)
        l1 == OperandLog(ctx, c1, s.i + 1, r1, s.log)
        c2 == NodeAt(nodes, s.i + 2)
        r2 == Operand(ctx, c2)
        l2 == OperandLog(ctx, c2, s.i + 2, r2, l1)
    IN IF IsErr(r2.err) THEN Return(s, r2.res, r2.err, l2)
       ELSE
         LET r == ApplyOp(curt.value, <<r1.res, r2.res>>)
             l3 == Append(l2, OpEvent(s.i, <<r1.res, r2.res>>, r, ctx))
         IN IF IsErr(r.err) THEN Return(s, r.res, r.err, l3)
            ELSE Push(nodes, s, s.i + 2, curt, s.osTop, r.res, l3)

\* a slip: the right operand (lines 138-147) is resolved before the left one
EvalFastOperatorRightFirst(nodes, ctx, s, curt) ==
  IF s.i + 2 > Len(nodes) - 1 THEN Panic(s, s.log)
  ELSE
    LET c2 == NodeAt(nodes, s.i + 2)
        r2 == Operand(ctx, c2)
        l2 == OperandLog(ctx, c2, s.i + 2, r2, s.log)
    IN IF IsErr(r2.err) THEN Return(s, r2.res, r2.err, l2)
       ELSE
         LET c1 == NodeAt(nodes, s.i + 1)
             r1 == Operand(ctx, c1)
             l1 == OperandLog(ctx, c1, s.i + 1, r1, l2)
         IN IF IsErr(r1.err) THEN Return(s, r1.res, r1.err, l1)
            ELSE
              LET r == ApplyOp(curt.value, <<r1.res, r2.res>>)
                  l3 == Append(l1, OpEvent(s.i, <<r1.res, r2.res>>, r, ctx))
              IN IF IsErr(r.err) THEN Return(s, r.res, r.err, l3)
                 ELSE Push(nodes, s, s.i + 2, curt, s.osTop, r.res, l3)

\* engine.go:126-152
EvalFastOperator(nodes, ctx, s, curt) ==
  IF s.i + 2 > Len(nodes) - 1 THEN Panic(s, s.log)
  ELSE
    LET c1 == NodeAt(nodes, s.i + 1)
        r1 == Operand(ctx, c1)
        l1 == OperandLog(ctx, c1, s.i + 1, r1, s.log)
    IN IF IsErr(r1.err) THEN Return(s, r1.res, r1.err, l1)
       ELSE
         LET c2 == NodeAt(nodes, s.i + 2)
             r2 == Operand(ctx, c2)
             l2 == OperandLog(ctx, c2, s.i + 2, r2, l1)
         IN IF IsErr(r2.err) THEN Return(s, r2.res, r2.err, l2)
            ELSE
              LET r == ApplyOp(curt.value, <<r1.res, r2.res>>)
                  l3 == Append(l2, OpEvent(s.i, <<r1.res, r2.res>>, r, ctx))
              IN IF IsErr(r.err) THEN Return(s, r.res, r.err, l3)
                 ELSE Push(nodes, s, s.i + 2, curt, s.osTop, r.res, l3)

\* engine.go:153-157
EvalSelector(nodes, ctx, s, curt) ==
  LET r == CtxGet(ctx, curt.value)
      l == Append(s.log, Event("get", s.i, r, ctx))
  IN IF IsErr(r.err) THEN Return(s, r.res, r.err, l)
     ELSE Push(nodes, s, s.i, curt, s.osTop, r.res, l)

\* engine.go:158-159
EvalConstant(nodes, ctx, s, curt) ==
  Push(nodes, s, s.i, curt, s.osTop, curt.value,
       Append(s.log, Event("const", s.i, [res |-> curt.value, err |-> NoErr], ctx)))

\* a slip: the parameters are read from osTop on, one slot too low
ParamsShifted(s, osTop, cCnt) ==
  [j \in 1..cCnt |-> IF InOs(s, osTop + j - 1) THEN s.os[osTop + j] ELSE NilValue]

\* engine.go:163-169: the parameters, read from os above the new osTop;
\* copy() stops at the end of os
Params(s, osTop, cCnt) ==
  [j \in 1..cCnt |-> IF InOs(s, osTop + j) THEN s.os[osTop + j + 1] ELSE NilValue]

\* engine.go:160-175
EvalOperator(nodes, ctx, s, curt) ==
  LET cCnt == curt.child
      osTop == s.osTop - cCnt
      bad == IF cCnt = 2 THEN ~InOs(s, osTop + 1) \/ ~InOs(s, osTop + 2)
             ELSE osTop + 1 \notin 0..Len(s.os)
  IN IF bad THEN Panic(s, s.log)
     ELSE
       LET r == ApplyOp(curt.value, Params(s, osTop, cCnt))
           l == Append(s.log, OpEvent(s.i, Params(s, osTop, cCnt), r, ctx))
       IN IF IsErr(r.err) THEN Return(s, NilValue, r.err, l)
          ELSE Push(nodes, s, s.i, curt, osTop, r.res, l)

\* engine.go:176-179: printDebugExpr only prints; continue
EvalDefault(nodes, ctx, s, curt) ==
  [s EXCEPT !.i = @ + 1, !.steps = @ + 1]

\* engine.go:120-194: one iteration of the loop, i < size
EvalIter(nodes, ctx, s) ==
  LET curt == NodeAt(nodes, s.i)
      typ == NodeType(curt)
  IN CASE typ = fastOperator -> EvalFastOperator(nodes, ctx, s, curt)
       [] typ = selector -> EvalSelector(nodes, ctx, s, curt)
       [] typ = constant -> EvalConstant(nodes, ctx, s, curt)
       [] typ = operator -> EvalOperator(nodes, ctx, s, curt)
       [] OTHER -> EvalDefault(nodes, ctx, s, curt)

\* a slip: a lookup stores its result in the node, as a cache
NodesCacheLookup(nodes, s, t) ==
  IF NodeType(NodeAt(nodes, s.i)) = selector /\ t.pc = "run"
  THEN [nodes EXCEPT ![s.i + 1].flag = @ - selector + constant, ![s.i + 1].value = t.res]
  ELSE nodes

\* engine.go:94-196: the program after an iteration that took the call from s
\* to t.  Eval assigns to no field of e and to no field of a labNode.
NodesAfterIter(nodes, s, t) == nodes

\* engine.go:195: return os[0], nil
EvalExit(s) ==
  IF ~InOs(s, 0) THEN [s EXCEPT !.pc = "panic"]
  ELSE [s EXCEPT !.pc = "done", !.ret = s.os[1], !.err = NoErr]

-----------------------------------------------------------------------------
(* The parser, src/parse.go.  A token is a record of its type, its text    *)
(* and its position in the source; a syntax-tree node carries the fields   *)
(* of node (flag, value, selKey, operator) and its children.  The operator *)
(* function of a node is named by op; a list literal keeps its elements in *)
(* list.  The outcome of a step is "ok", a positional error (its kind and  *)
(* position), or a run-time panic.                                         *)

Tok(typ, val, pos) == [typ |-> typ, val |-> val, pos |-> pos]

PNode(flag, value, selKey, op, list, kids) ==
  [flag |-> flag, value |-> value, selKey |-> selKey, op |-> op, list |-> list,
   kids |-> kids]

NoPNode == PNode(0, "", 0, "", << >>, << >>)

\* parser.valNode, parse.go:369-376
valNode(v) == PNode(constant, v, 0, "", << >>, << >>)

\* the registries consulted by the parser
BuiltinConstants == {"true"}
BuiltinConstantValue(name) == "T"
BuiltinOperators == {"and", "or", "not"}
UndefinedSelKey == 0
\* the value and the key the caller's maps give a name
ConstantMapValue(name) == IF name = "true" THEN "cTrue" ELSE "cX"
SelectorMapKey(name) == IF name = "true" THEN 2 ELSE 1

\* the optimizations a directive can switch, and CompileOptions with all of them off
AllOptimizations == {"reordering", "fast_evaluation", "constant_folding"}
NoOptions == [o \in AllOptimizations |-> FALSE]

\* parse.go:35-36
keywords == {"if", "let", "any", "all", "map", "filter", "reduce", "collect"}

POk(node, idx) == [st |-> "ok", node |-> node, idx |-> idx, err |-> "", pos |-> 0]
PNil(idx) == [st |-> "nil", node |-> NoPNode, idx |-> idx, err |-> "", pos |-> 0]
PErr(kind, pos, idx) == [st |-> "err", node |-> NoPNode, idx |-> idx, err |-> kind, pos |-> pos]
PPanic(idx) == [st |-> "panic", node |-> NoPNode, idx |-> idx, err |-> "", pos |-> 0]

HasTok(T, i) == i \in 0..(Len(T) - 1)
TokAt(T, i) == T[i + 1]

\* parse.go:217-223: the comment tokens are dropped, the order kept
RECURSIVE DropComments(_)
DropComments(T) ==
  IF T = << >> THEN << >>
  ELSE IF Head(T).typ = "comment" THEN DropComments(Tail(T))
  ELSE <<Head(T)>> \o DropComments(Tail(T))

\* parse.go:246-257: the loop over the tokens, from token i with count parenCnt
RECURSIVE ParenLoop(_, _, _)
ParenLoop(T, i, parenCnt) ==
  IF i > Len(T) - 1 THEN PNil(0)
  ELSE LET t == TokAt(T, i)
           c == IF t.typ = "lParen" THEN parenCnt + 1
                ELSE IF t.typ = "rParen" THEN parenCnt - 1
                ELSE parenCnt
       IN IF c < 0 \/ (c = 0 /\ i # Len(T) - 1)
          THEN PErr("parentheses unmatched error", t.pos, 0)
          ELSE ParenLoop(T, i + 1, c)

\* parser.checkParentheses, parse.go:240-260: "nil" when the check passes
checkParentheses(T) ==
  IF ~HasTok(T, 0) THEN PPanic(0)
  ELSE IF TokAt(T, 0).typ # "lParen" \/ TokAt(T, Len(T) - 1).typ # "rParen"
  THEN PErr("parentheses unmatched error", 0, 0)
  ELSE ParenLoop(T, 0, 0)

\* parser.parseInt, parse.go:422-433
parseInt(T, i, conf) ==
  IF ~HasTok(T, i) THEN PPanic(i)
  ELSE IF TokAt(T, i).typ # "integer" THEN PNil(i)
  ELSE POk(valNode(TokAt(T, i).val), i + 1)

\* parser.parseStr, parse.go:434-441
parseStr(T, i, conf) ==
  IF ~HasTok(T, i) THEN PPanic(i)
  ELSE IF TokAt(T, i).typ # "str" THEN PNil(i)
  ELSE POk(valNode(TokAt(T, i).val), i + 1)

\* parser.parseConst, parse.go:442-458
parseConst(T, i, conf) ==
  IF ~HasTok(T, i) THEN PPanic(i)
  ELSE LET t == TokAt(T, i) IN
    IF t.typ # "ident" THEN PNil(i)
    ELSE IF t.val \in BuiltinConstants THEN POk(valNode(BuiltinConstantValue(t.val)), i + 1)
    ELSE IF t.val \in conf.constants THEN POk(valNode(ConstantMapValue(t.val)), i + 1)
    ELSE PNil(i)

\* parser.parseSelector, parse.go:460-482
parseSelector(T, i, conf) ==
  IF ~HasTok(T, i) THEN PPanic(i)
  ELSE LET t == TokAt(T, i) IN
    IF t.typ # "ident" THEN PNil(i)
    ELSE IF t.val \in conf.selectors
    THEN POk(PNode(selector, t.val, SelectorMapKey(t.val), "", << >>, << >>), i + 1)
    ELSE IF conf.allowUnknown
    THEN POk(PNode(selector, t.val, UndefinedSelKey, "", << >>, << >>), i + 1)
    ELSE PNil(i)

\* parse.go:389-398: the elements of a list literal, from token j
RECURSIVE ListLoop(_, _, _, _)
ListLoop(T, j, typ, strs) ==
  IF j > Len(T) - 1 THEN [st |-> "end", strs |-> strs, at |-> j, pos |-> 0]
  ELSE IF TokAt(T, j).typ = "rParen" THEN [st |-> "close", strs |-> strs, at |-> j, pos |-> 0]
  ELSE IF TokAt(T, j).typ # typ
  THEN [st |-> "err", strs |-> strs, at |-> j, pos |-> TokAt(T, j).pos]
  ELSE ListLoop(T, j + 1, typ, Append(strs, TokAt(T, j).val))

\* parser.parseList, parse.go:378-420
parseList(T, i, conf) ==
  IF ~HasTok(T, i) THEN PPanic(i)
  ELSE IF TokAt(T, i).typ # "lParen" THEN PNil(i)
  ELSE IF ~HasTok(T, i + 1) THEN PPanic(i)
  ELSE LET typ == TokAt(T, i + 1).typ IN
    IF typ \notin {"rParen", "integer", "str"} THEN PNil(i)
    ELSE LET r == ListLoop(T, i + 1, typ, << >>) IN
      IF r.st = "err" THEN PErr("token type unexpected error", r.pos, i)
      ELSE POk(PNode(constant, "list", 0, "", r.strs, << >>),
               IF r.st = "close" THEN r.at + 1 ELSE i + 1)

FirstOf(a, b) == IF a.st # "nil" THEN a ELSE b

\* a slip: parseSelector is tried before parseConst
parseSingleNodeSelectorFirst(T, i, conf) ==
  FirstOf(parseInt(T, i, conf),
  FirstOf(parseStr(T, i, conf),
  FirstOf(parseSelector(T, i, conf),
  FirstOf(parseConst(T, i, conf),
          parseList(T, i, conf)))))

\* parser.parseSingleNode, parse.go:484-494: the first function that yields a
\* node or an error
parseSingleNode(T, i, conf) ==
  FirstOf(parseInt(T, i, conf),
  FirstOf(parseStr(T, i, conf),
  FirstOf(parseConst(T, i, conf),
  FirstOf(parseSelector(T, i, conf),
          parseList(T, i, conf)))))

\* a slip: line 544 tests len(children) < 3
buildKeywordNodeAtLeast3(car, children) ==
  IF car.val # "if" THEN PErr("is not currently supported", car.pos, 0)
  ELSE IF Len(children) < 3 THEN PErr("parameters count error", car.pos, 0)
  ELSE POk(PNode(cond, "if", 0, "if", << >>,
                 Append(children, PNode(cond, "fi", 0, "fi", << >>, << >>))), 0)

\* parser.buildKeywordNode, parse.go:539-573
buildKeywordNode(car, children) ==
  IF car.val # "if" THEN PErr("is not currently supported", car.pos, 0)
  ELSE IF Len(children) # 3 THEN PErr("parameters count error", car.pos, 0)
  ELSE POk(PNode(cond, "if", 0, "if", << >>,
                 Append(children, PNode(cond, "fi", 0, "fi", << >>, << >>))), 0)

\* parser.buildNode, parse.go:575-596
buildNode(car, children, conf) ==
  IF car.val \in keywords THEN buildKeywordNode(car, children)
  ELSE IF car.val \in BuiltinOperators \/ car.val \in conf.operators
  THEN POk(PNode(operator, car.val, 0, car.val, << >>, children), 0)
  ELSE PErr("unknown token error", car.pos, 0)

\* parser.parseExpression, parse.go:496-515, up to the loop over the children:
\* "ok" with an operand, "open" with the head of a compound form, or an error
ExprBegin(T, i, conf) ==
  LET r == parseSingleNode(T, i, conf) IN
  IF r.st # "nil" THEN r
  ELSE IF TokAt(T, i).typ = "ident" THEN PErr("unknown token error", TokAt(T, i).pos, i)
  ELSE IF TokAt(T, i).typ # "lParen"
  THEN PErr("token type unexpected error", TokAt(T, i).pos, i + 1)
  ELSE IF ~HasTok(T, i + 1) THEN PPanic(i + 1)
  ELSE IF TokAt(T, i + 1).typ # "ident"
  THEN PErr("token type unexpected error", TokAt(T, i + 1).pos, i + 2)
  ELSE [st |-> "open", node |-> NoPNode, idx |-> i + 2, err |-> "", pos |-> 0]

-----------------------------------------------------------------------------
(* parser.lex, src/parse.go:71-213.  The source is the sequence of its     *)
(* characters, A[i] of the source is A[i + 1] here; the text of a token is *)
(* the sequence of its characters.  A lexer yields "hit" with the token    *)
(* and the index after it, or "miss" (the source's j = i).                 *)

Spaces == {" ", "\n"}
Digits == {"0", "1", "2", "3", "4", "5", "6", "7", "8", "9"}
Letters == {"x", "y", "i", "n"}
\* the built-in operators whose names are no identifiers
SymbolOperators == { <<"=">>, <<"!", "=">> }

LexHit(typ, val, j) == [hit |-> TRUE, typ |-> typ, val |-> val, j |-> j]
LexMiss == [hit |-> FALSE, typ |-> "", val |-> << >>, j |-> 0]

\* parse.go:73-81: the index at which the run of characters from i ends
RECURSIVE TokenEnd(_, _)
TokenEnd(A, j) ==
  IF j < Len(A) /\ A[j + 1] \notin Spaces \cup {"(", ")", ";"} THEN TokenEnd(A, j + 1) ELSE j
nextToken(A, i) == [s |-> SubSeq(A, i + 1, TokenEnd(A, i)), j |-> TokenEnd(A, i)]

\* parse.go:83-95
lexParen(A, i) ==
  IF A[i + 1] \in {"(", "["} THEN LexHit("lParen", <<A[i + 1]>>, i + 1)
  ELSE IF A[i + 1] \in {")", "]"} THEN LexHit("rParen", <<A[i + 1]>>, i + 1)
  ELSE LexMiss

\* strconv.ParseInt(s, 10, 64) succeeds: an optional sign and digits (the texts of
\* the model are too short to leave the range)
IsInt(s) ==
  LET d == IF s # << >> /\ Head(s) \in {"+", "-"} THEN Tail(s) ELSE s
  IN d # << >> /\ \A j \in 1..Len(d) : d[j] \in Digits

\* parse.go:97-106
lexInteger(A, i) ==
  LET t == nextToken(A, i) IN
  IF IsInt(t.s) THEN LexHit("integer", t.s, t.j) ELSE LexMiss

\* parse.go:108-123
lexStr(A, i) ==
  IF A[i + 1] # "\"" THEN LexMiss
  ELSE IF \A j \in (i + 1)..(Len(A) - 1) : A[j + 1] # "\"" THEN LexMiss
  ELSE LET j == CHOOSE j \in (i + 1)..(Len(A) - 1) :
                  A[j + 1] = "\"" /\ \A h \in (i + 1)..(j - 1) : A[h + 1] # "\""
       IN LexHit("str", SubSeq(A, i + 2, j), j + 1)

\* parse.go:128-137: the character at index idx of an identifier passes
IdentRune(r, idx) ==
  \/ r \in Digits /\ idx # 0
  \/ r \in Letters
  \/ r = "_"

\* parse.go:125-159
lexIdent(A, i) ==
  LET t == nextToken(A, i) IN
  IF /\ \E idx \in 0..(Len(t.s) - 1) : ~IdentRune(t.s[idx + 1], idx)
     /\ t.s \notin SymbolOperators
  THEN LexMiss
  ELSE IF i # t.j THEN LexHit("ident", t.s, t.j) ELSE LexMiss

\* parse.go:160-176: the comment runs to the end of the line
RECURSIVE LineEnd(_, _)
LineEnd(A, j) == IF j < Len(A) /\ A[j + 1] # "\n" THEN LineEnd(A, j + 1) ELSE j
lexComment(A, i) ==
  IF A[i + 1] # ";" THEN LexMiss
  ELSE LexHit("comment", SubSeq(A, i + 1, LineEnd(A, i)), LineEnd(A, i) + 1)

\* parse.go:178-184 and 196-206: the first lexer that hits
FirstLexer(A, i) ==
  LET hits == <<lexParen(A, i), lexInteger(A, i), lexStr(A, i), lexIdent(A, i),
                lexComment(A, i)>>
  IN IF \A k \in 1..5 : ~hits[k].hit THEN LexMiss
     ELSE hits[CHOOSE k \in 1..5 : hits[k].hit /\ \A h \in 1..(k - 1) : ~hits[h].hit]

\* parse.go:187-212: the main loop from index i with the tokens found so far
RECURSIVE LexLoop(_, _, _)
LexLoop(A, i, tokens) ==
  IF i >= Len(A) THEN [st |-> "ok", tokens |-> tokens, pos |-> 0]
  ELSE IF A[i + 1] \in Spaces THEN LexLoop(A, i + 1, tokens)
  ELSE LET r == FirstLexer(A, i) IN
    IF ~r.hit THEN [st |-> "err", tokens |-> << >>, pos |-> i]
    ELSE LexLoop(A, r.j, Append(tokens, Tok(r.typ, r.val, i)))

\* parser.lex, parse.go:71-213
lex(A) == LexLoop(A, 0, << >>)

-----------------------------------------------------------------------------
(* parser.parseConfig, src/parse.go:598-644.  The text of a comment token  *)
(* is the sequence of its lexemes: each separator character (";", ",",     *)
(* ":", " ") is a lexeme of its own and each maximal run of other          *)
(* characters is one lexeme, so ";;;; optimize:true" is                    *)
(* <<";", ";", ";", ";", " ", "optimize", ":", "true">>.                   *)

RECURSIVE TrimLeft(_), TrimRight(_), Split(_, _)
TrimLeft(s) == IF s # << >> /\ Head(s) = " " THEN TrimLeft(Tail(s)) ELSE s
TrimRight(s) ==
  IF s # << >> /\ s[Len(s)] = " " THEN TrimRight(SubSeq(s, 1, Len(s) - 1)) ELSE s
\* strings.TrimSpace
TrimSpace(s) == TrimRight(TrimLeft(s))
\* strings.HasPrefix, strings.TrimPrefix
HasPrefix(s, pre) == Len(s) >= Len(pre) /\ SubSeq(s, 1, Len(pre)) = pre
TrimPrefix(s, pre) == IF HasPrefix(s, pre) THEN SubSeq(s, Len(pre) + 1, Len(s)) ELSE s
\* strings.Split by a one-character separator: the text without a separator is
\* one part, also when it is empty
Split(s, sep) ==
  IF \A j \in 1..Len(s) : s[j] # sep THEN <<s>>
  ELSE LET k == CHOOSE j \in 1..Len(s) : s[j] = sep /\ \A h \in 1..(j - 1) : s[h] # sep
       IN <<SubSeq(s, 1, k - 1)>> \o Split(SubSeq(s, k + 1, Len(s)), sep)

\* parse.go:599-600
ConfigPrefix == <<";", ";", ";", ";">>
ConfigSeparator == ","

\* strconv.ParseBool, parse.go:625
TrueWords == {"1", "t", "T", "TRUE", "true", "True"}
FalseWords == {"0", "f", "F", "FALSE", "false", "False"}
ParseBool(w) ==
  IF Len(w) = 1 /\ w[1] \in TrueWords THEN [ok |-> TRUE, val |-> TRUE]
  ELSE IF Len(w) = 1 /\ w[1] \in FalseWords THEN [ok |-> TRUE, val |-> FALSE]
  ELSE [ok |-> FALSE, val |-> FALSE]

\* the option that switches all optimizations
Optimize == "optimize"

\* a slip: optimize switches the first optimization only
applyOptionOptimizeOne(options, name, enabled) ==
  IF name = <<Optimize>>
  THEN [ok |-> TRUE, options |-> [options EXCEPT !["reordering"] = enabled]]
  ELSE IF Len(name) = 1 /\ name[1] \in AllOptimizations
  THEN [ok |-> TRUE, options |-> [options EXCEPT ![name[1]] = enabled]]
  ELSE [ok |-> FALSE, options |-> options]

\* a slip: the default case is missing, an unknown option is ignored
applyOptionIgnoreUnknown(options, name, enabled) ==
  IF name = <<Optimize>>
  THEN [ok |-> TRUE, options |-> [o \in AllOptimizations |-> enabled]]
  ELSE IF Len(name) = 1 /\ name[1] \in AllOptimizations
  THEN [ok |-> TRUE, options |-> [options EXCEPT ![name[1]] = enabled]]
  ELSE [ok |-> TRUE, options |-> options]

\* parse.go:629-638: the switch on the option
applyOption(options, name, enabled) ==
  IF name = <<Optimize>>
  THEN [ok |-> TRUE, options |-> [o \in AllOptimizations |-> enabled]]
  ELSE IF Len(name) = 1 /\ name[1] \in AllOptimizations
  THEN [ok |-> TRUE, options |-> [options EXCEPT ![name[1]] = enabled]]
  ELSE [ok |-> FALSE, options |-> options]

\* the outcome of parseConfig: work is the object confCopy names (shared when it
\* is the object p.conf points to) with the directives applied so far
ConfOk(work) == [st |-> "ok", work |-> work, err |-> "", pos |-> 0]
ConfErr(work, kind, t) == [st |-> "err", work |-> work, err |-> kind, pos |-> t.pos]

\* parse.go:615-640: the fragments of the directive of token t, from fragment j
RECURSIVE FragLoop(_, _, _, _)
FragLoop(frags, j, work, t) ==
  IF j > Len(frags) THEN ConfOk(work)
  ELSE LET pair == Split(frags[j], ":") IN
    IF Len(pair) # 2 THEN ConfErr(work, "invalid compile format", t)
    ELSE LET b == ParseBool(TrimSpace(pair[2])) IN
      IF ~b.ok THEN ConfErr(work, "invalid config value", t)
      ELSE LET r == applyOption(work.conf.options, TrimSpace(pair[1]), b.val) IN
        IF ~r.ok THEN ConfErr(work, "unsupported compile config", t)
        ELSE FragLoop(frags, j + 1, [work EXCEPT !.conf.options = r.options], t)

\* parse.go:605-641: the loop over the tokens, from token j (1-based)
RECURSIVE ConfLoop(_, _, _)
ConfLoop(T, j, work) ==
  IF j > Len(T) THEN ConfOk(work)
  ELSE LET t == T[j] IN
    IF t.typ # "comment" THEN ConfOk(work)
    ELSE LET cmt == TrimSpace(t.val) IN
      IF ~HasPrefix(cmt, ConfigPrefix) THEN ConfLoop(T, j + 1, work)
      ELSE LET r == FragLoop(Split(TrimPrefix(cmt, ConfigPrefix), ConfigSeparator), 1, work, t)
           IN IF r.st # "ok" THEN r ELSE ConfLoop(T, j + 1, r.work)

\* CopyCompileConfig: a new object with the content of c
CopyCompileConfig(c) == [shared |-> FALSE, conf |-> c]

\* a slip: the loop does not stop at the first token that is no comment
parseConfigNoBreak(T, c) ==
  ConfLoop(SelectSeq(T, LAMBDA t : t.typ = "comment"), 1, CopyCompileConfig(c))

\* a slip: confCopy := p.conf, the directives are applied to the object in use
parseConfigInPlace(T, c) == ConfLoop(T, 1, [shared |-> TRUE, conf |-> c])

\* parser.parseConfig, parse.go:598-644, up to the assignment to p.conf
parseConfig(T, c) == ConfLoop(T, 1, CopyCompileConfig(c))

-----------------------------------------------------------------------------
(* parser.parseAstTree as a state machine.  The recursion of               *)
(* parseExpression is kept as the stack pstack of the open compound forms, *)
(* each with its head (car) and the children parsed so far.  ppc is        *)
(* "start" before parseAstTree, "expr" at the call of parseExpression for  *)
(* the root, "loop" at the head of the loop over the children (line 517),  *)
(* "done" after parseAstTree returned or panicked.                         *)

NoResult == [st |-> "none", root |-> NoPNode, err |-> "", pos |-> 0]
Result(st, root, err, pos) == [st |-> st, root |-> root, err |-> err, pos |-> pos]

\* parseAstTree returns the error (or panics) of step r
Fail(r) ==
  /\ ppc' = "done"
  /\ pres' = Result(r.st, NoPNode, r.err, r.pos)
  /\ pidx' = r.idx
  /\ UNCHANGED <<pstack, ptokens>>

\* parseExpression returns node with p.idx = idx to the form on top of stack, or,
\* for the root, to parseAstTree (parse.go:229-237)
Deliver(node, idx, stack) ==
  /\ pidx' = idx
  /\ UNCHANGED ptokens
  /\ IF stack = << >>
     THEN /\ ppc' = "done"
          /\ pstack' = stack
          /\ pres' = IF idx # Len(ptokens)
                     THEN Result("err", NoPNode, "invalid expression error", idx)
                     ELSE Result("ok", node, "", 0)
     ELSE /\ ppc' = "loop"
          /\ pstack' = [stack EXCEPT ![Len(stack)].kids = Append(@, node)]
          /\ UNCHANGED pres

\* a call of parseExpression at p.idx, up to its loop
Begin ==
  LET r == ExprBegin(ptokens, pidx, pconf) IN
  CASE r.st = "ok" -> Deliver(r.node, r.idx, pstack)
    [] r.st = "open" ->
         /\ ppc' = "loop"
         /\ pidx' = r.idx
         /\ pstack' = Append(pstack, [car |-> TokAt(ptokens, pidx + 1), kids |-> << >>])
         /\ UNCHANGED <<pres, ptokens>>
    [] OTHER -> Fail(r)

\* parse.go:216-227: comments dropped, parentheses checked
ParseStart ==
  /\ ppc = "start"
  /\ LET T == DropComments(ptokens)
         r == checkParentheses(T)
     IN /\ ptokens' = T
        /\ IF r.st = "nil"
           THEN ppc' = "expr" /\ UNCHANGED pres
           ELSE ppc' = "done" /\ pres' = Result(r.st, NoPNode, r.err, r.pos)
  /\ UNCHANGED <<psource, callerConf, pconf, pidx, pstack>>
  /\ UNCHANGED evalVars

\* parse.go:229: parseExpression for the root
ParseRoot ==
  /\ ppc = "expr"
  /\ Begin
  /\ UNCHANGED <<psource, callerConf, pconf>>
  /\ UNCHANGED evalVars

\* parse.go:517-523: the next token is no rParen, a child is parsed
ParseChild ==
  /\ ppc = "loop"
  /\ IF ~HasTok(ptokens, pidx) THEN Fail(PPanic(pidx))
     ELSE TokAt(ptokens, pidx).typ # "rParen" /\ Begin
  /\ UNCHANGED <<psource, callerConf, pconf>>
  /\ UNCHANGED evalVars

\* parse.go:517, 525-527: the next token is rParen, the form is built
CloseForm ==
  /\ ppc = "loop"
  /\ HasTok(ptokens, pidx)
  /\ TokAt(ptokens, pidx).typ = "rParen"
  /\ LET top == pstack[Len(pstack)]
         r == buildNode(top.car, top.kids, pconf)
     IN IF r.st = "ok"
        THEN Deliver(r.node, pidx + 1, SubSeq(pstack, 1, Len(pstack) - 1))
        ELSE Fail([r EXCEPT !.idx = pidx + 1])
  /\ UNCHANGED <<psource, callerConf, pconf>>
  /\ UNCHANGED evalVars

NextParse == ParseStart \/ ParseRoot \/ ParseChild \/ CloseForm

\* the token sequences and the configurations the parser is run on
KindTyp(k) ==
  CASE k = "(" -> "lParen"
    [] k = ")" -> "rParen"
    [] k = ";c" -> "comment"
    [] k = "1" -> "integer"
    [] OTHER -> "ident"

MkTokens(kinds) == [j \in 1..Len(kinds) |-> Tok(KindTyp(kinds[j]), kinds[j], j - 1)]

SeqsUpTo(S, n) == UNION {[1..k -> S] : k \in 0..n}

RECURSIVE Flatten(_)
Flatten(ss) == IF ss = << >> THEN << >> ELSE Head(ss) \o Flatten(Tail(ss))

ParenKinds == {"(", ")", "x", ";c"}
Heads == {"if", "and", "let", "x"}
Atoms == {<<"true">>, <<"x">>, <<"(", "and", "1", ")">>}

ParenInputs == {MkTokens(ks) : ks \in SeqsUpTo(ParenKinds, MaxParenLen)}
FormInputs ==
  {MkTokens(<<"(", h>> \o Flatten(as) \o <<")">>) : h \in Heads, as \in SeqsUpTo(Atoms, MaxArgs)}

Names == {"true", "x"}
Confs ==
  [constants : SUBSET Names, selectors : SUBSET Names, operators : {{}},
   allowUnknown : BOOLEAN, options : {NoOptions}]
PlainConf ==
  [constants |-> {}, selectors |-> {"x"}, operators |-> {}, allowUnknown |-> FALSE,
   options |-> NoOptions]

EvalIdle ==
  /\ ast = NoTree
  /\ fastEval = FALSE
  /\ labNodes = << >>
  /\ maxStackSize = 0
  /\ ctxs = << >>
  /\ evs = << >>

InitParse ==
  /\ \/ ptokens \in ParenInputs /\ pconf = PlainConf
     \/ ptokens \in FormInputs /\ pconf \in Confs
  /\ callerConf = pconf
  /\ psource = << >>
  /\ pidx = 0
  /\ pstack = << >>
  /\ pres = NoResult
  /\ ppc = "start"
  /\ EvalIdle

SpecParse == InitParse /\ [][NextParse]_vars

-----------------------------------------------------------------------------
(* parser.parse after lex, src/parse.go:266-275: parseConfig on the tokens *)
(* as lex left them, then parseAstTree.  ppc is "conf" before parseConfig. *)

\* parse.go:266-269 and 598-644: parseConfig; on an error parse returns it
ParseConfig ==
  /\ ppc = "conf"
  /\ LET r == parseConfig(ptokens, pconf) IN
       /\ callerConf' = IF r.work.shared THEN r.work.conf ELSE callerConf
       /\ IF r.st = "ok"
          THEN /\ pconf' = r.work.conf
               /\ ppc' = "start"
               /\ UNCHANGED pres
          ELSE /\ pconf' = IF r.work.shared THEN r.work.conf ELSE pconf
               /\ ppc' = "done"
               /\ pres' = Result("err", NoPNode, r.err, r.pos)
  /\ UNCHANGED <<psource, ptokens, pidx, pstack>>
  /\ UNCHANGED evalVars

NextHeader == ParseConfig \/ ParseStart \/ ParseRoot \/ ParseChild \/ CloseForm

\* the sources parse is run on: a header of comments made of at most MaxUnits
\* units (a fragment that opens a directive or continues the one before it, or a
\* comment that is no directive), and a body
Frags ==
  { <<" ", "optimize", ":", "true", " ">>,
    <<"reordering", ":", " ", "false">>,
    <<"optimize", ":", "yes">>,
    <<"debug", ":", "true">>,
    <<"optimize", ":", "true", ":", "1">>,
    << >> }
PlainComment == <<";", " ", "note">>
Units ==
  {[kind |-> "frag", frag |-> f, new |-> b] : f \in Frags, b \in BOOLEAN}
    \cup {[kind |-> "plain", frag |-> << >>, new |-> TRUE]}

RECURSIVE HeaderTexts(_, _, _, _)
\* the texts of the comments the units from unit j on add to acc; open: the last
\* comment of acc is a directive
HeaderTexts(units, j, acc, open) ==
  IF j > Len(units) THEN acc
  ELSE LET u == units[j] IN
    IF u.kind = "plain" THEN HeaderTexts(units, j + 1, Append(acc, PlainComment), FALSE)
    ELSE IF u.new \/ ~open
    THEN HeaderTexts(units, j + 1, Append(acc, ConfigPrefix \o u.frag), TRUE)
    ELSE HeaderTexts(units, j + 1,
                     [acc EXCEPT ![Len(acc)] = @ \o <<ConfigSeparator>> \o u.frag], TRUE)

Item(kind, txt) == [kind |-> kind, txt |-> txt]
Word(kind) == Item(kind, << >>)
Bodies ==
  { << >>,
    <<Word("("), Word("and"), Word("1"), Word(")")>>,
    <<Word("("), Word("and"), Item(";c", ConfigPrefix \o <<"debug", ":", "true">>),
      Word("1"), Word(")"), Item(";c", ConfigPrefix \o <<"optimize", ":", "true">>)>> }

ItemTok(it, pos) ==
  Tok(KindTyp(it.kind), IF KindTyp(it.kind) = "comment" THEN it.txt ELSE it.kind, pos)

SourceTokens(units, body) ==
  LET items == [j \in 1..Len(HeaderTexts(units, 1, << >>, FALSE)) |->
                  Item(";c", HeaderTexts(units, 1, << >>, FALSE)[j])] \o body
  IN [j \in 1..Len(items) |-> ItemTok(items[j], j - 1)]

HeaderInputs == {SourceTokens(us, b) : us \in SeqsUpTo(Units, MaxUnits), b \in Bodies}

AllOptions == [o \in AllOptimizations |-> TRUE]
HeaderConfs == {[PlainConf EXCEPT !.options = o] : o \in {NoOptions, AllOptions}}

InitHeader ==
  /\ ptokens \in HeaderInputs
  /\ pconf \in HeaderConfs
  /\ callerConf = pconf
  /\ psource = << >>
  /\ pidx = 0
  /\ pstack = << >>
  /\ pres = NoResult
  /\ ppc = "conf"
  /\ EvalIdle

SpecHeader == InitHeader /\ [][NextHeader]_vars

-----------------------------------------------------------------------------
(* parser.lex as the first step of parser.parse, src/parse.go:263-265.     *)
(* ppc is "lex" before it and "lexed" after it.                            *)

Lex ==
  /\ ppc = "lex"
  /\ LET r == lex(psource) IN
       IF r.st = "ok"
       THEN ptokens' = r.tokens /\ ppc' = "lexed" /\ UNCHANGED pres
       ELSE /\ ppc' = "done"
            /\ pres' = Result("err", NoPNode, "can not parse token", r.pos)
            /\ UNCHANGED ptokens
  /\ UNCHANGED <<psource, callerConf, pconf, pidx, pstack>>
  /\ UNCHANGED evalVars

NextLex == Lex

\* the sources lex is run on
Chars == {"(", ")", "[", "]", " ", "\n", "1", "x", ";", "\"", "="}
SourceInputs == SeqsUpTo(Chars, MaxSrcLen)

InitLex ==
  /\ psource \in SourceInputs
  /\ pconf = PlainConf
  /\ callerConf = pconf
  /\ ptokens = << >>
  /\ pidx = 0
  /\ pstack = << >>
  /\ pres = NoResult
  /\ ppc = "lex"
  /\ EvalIdle

SpecLex == InitLex /\ [][NextLex]_vars

-----------------------------------------------------------------------------
(* The evaluator as a state machine: evaluations k of one shared Program,  *)
(* each with a Ctx of its own.                                             *)

Ctxs == {[sel |-> f, cancelled |-> FALSE] : f \in [SelNames -> SelValues]}

ParserIdle ==
  /\ pconf = [constants |-> {}, selectors |-> {}, operators |-> {}, allowUnknown |-> FALSE,
              options |-> NoOptions]
  /\ callerConf = pconf
  /\ psource = << >>
  /\ ptokens = << >>
  /\ pidx = 0
  /\ pstack = << >>
  /\ pres = NoResult
  /\ ppc = "idle"

InitEval(trees, evals) ==
  /\ ast \in trees
  /\ fastEval \in BOOLEAN
  /\ labNodes = Layout(ast, fastEval)
  /\ maxStackSize = StackSize(labNodes)
  /\ ctxs \in [evals -> Ctxs]
  /\ evs = [k \in evals |-> EvalStart(labNodes, maxStackSize)]
  /\ ParserIdle

\* one iteration of the loop of Eval
EvalStep(k) ==
  /\ evs[k].pc = "run"
  /\ evs[k].i < Len(labNodes)
  /\ evs' = [evs EXCEPT ![k] = EvalIter(labNodes, ctxs[k], evs[k])]
  /\ labNodes' = NodesAfterIter(labNodes, evs[k], evs'[k])
  /\ UNCHANGED <<ast, fastEval, maxStackSize, ctxs>>
  /\ UNCHANGED parseVars

\* the loop ends: i = size
EvalReturn(k) ==
  /\ evs[k].pc = "run"
  /\ evs[k].i >= Len(labNodes)
  /\ evs' = [evs EXCEPT ![k] = EvalExit(evs[k])]
  /\ UNCHANGED <<ast, fastEval, labNodes, maxStackSize, ctxs>>
  /\ UNCHANGED parseVars

\* the caller cancels the context.Context of evaluation k
Cancel(k) ==
  /\ evs[k].pc = "run"
  /\ ~ctxs[k].cancelled
  /\ ctxs' = [ctxs EXCEPT ![k].cancelled = TRUE]
  /\ UNCHANGED <<ast, fastEval, labNodes, maxStackSize, evs>>
  /\ UNCHANGED parseVars

NextEval ==
  \E k \in DOMAIN evs : EvalStep(k) \/ EvalReturn(k) \/ Cancel(k)

Init == InitEval(TreesUpTo(MaxNodes) \cup ExtraTrees \cup {NoTree}, {1})

Next == NextEval

Spec == Init /\ [][Next]_vars

\* two evaluations of one Program run concurrently, each with its own Ctx
InitConc == InitEval(TreesUpTo(MaxConcNodes), {1, 2})

NextConc == \E k \in DOMAIN evs : EvalStep(k) \/ EvalReturn(k)

SpecConc == InitConc /\ [][NextConc]_vars

\* one evaluation of a wide expression: an "and" or "or" of at most MaxWidth
\* operands, each a leaf or a conditional, or of as many selectors as make Eval
\* take the buffer of 16 slots and the buffer of len(program) slots
WideKids ==
  (Leaves \ {AstNode(selector, "b", << >>)})
    \cup {AstNode(cond, "if", <<AstNode(selector, "a", << >>), AstNode(constant, "n1", << >>),
                                AstNode(constant, "n1", << >>), FiNode>>)}
LongArities == {9, 17}
WideTrees ==
  {AstNode(operator, op, ks) :
     op \in {"and", "or"}, ks \in UNION {[1..n -> WideKids] : n \in 2..MaxWidth}}
    \cup {AstNode(operator, op, [j \in 1..n |-> AstNode(selector, "a", << >>)]) :
           op \in {"and", "or"}, n \in LongArities}

InitWide == InitEval(WideTrees, {1})

SpecWide == InitWide /\ [][NextConc]_vars

-----------------------------------------------------------------------------
(* Helpers of the properties.                                              *)

Evals == DOMAIN evs
Size0 == Len(labNodes)
Idx == 0..(Len(labNodes) - 1)

\* node j lies in the subtree of node p
RECURSIVE Under(_, _)
Under(j, p) ==
  \/ j = p
  \/ NodeAt(labNodes, j).par # -1 /\ Under(NodeAt(labNodes, j).par, p)

Kids(p) == {j \in Idx : NodeAt(labNodes, j).par = p}
FirstKid(p) == CHOOSE j \in Kids(p) : \A h \in Kids(p) : j <= h

IsAndOr(p) ==
  /\ NodeType(NodeAt(labNodes, p)) \in {operator, fastOperator}
  /\ NodeAt(labNodes, p).value \in {"and", "or"}

Stops(p) == IF NodeAt(labNodes, p).value = "and" THEN "F" ELSE "T"

IsCall(e) == e.kind \in {"get", "op"}

NoFailure(s) == \A j \in 1..Len(s.log) : ~IsErr(s.log[j].err)

\* every scPos is -1 or a strictly later index
ForwardJumps == \A j \in Idx : NodeAt(labNodes, j).scPos = -1 \/ NodeAt(labNodes, j).scPos > j

RECURSIVE RunAlone(_, _, _)
\* the state in which Eval returns when nothing else runs
RunAlone(nodes, ctx, s) ==
  IF s.pc # "run" THEN s
  ELSE IF s.i < Len(nodes) THEN RunAlone(nodes, ctx, EvalIter(nodes, ctx, s))
  ELSE EvalExit(s)

-----------------------------------------------------------------------------
(* The claims.                                                             *)

\* C1: in an (and x y ...) whose first operand x evaluated to false, and in an
\* (or x y ...) whose x evaluated to true, no lookup and no operator of a later
\* sibling is invoked, whether the node is an operator or a fastOperator triple.
C1_NoLaterSiblingCall ==
  \A k \in Evals : \A p \in Idx :
    (IsAndOr(p) /\ Kids(p) # {}) =>
      \A e1, e2 \in 1..Len(evs[k].log) :
        LET x == FirstKid(p)
            a == evs[k].log[e1]
            b == evs[k].log[e2]
        IN ~( /\ a.node = x /\ ~IsErr(a.err) /\ a.res = Stops(p)
              /\ IsCall(b) /\ Under(b.node, p) /\ b.node # p /\ ~Under(b.node, x) )

\* C2: Eval dispatches at most len(program) nodes and always makes progress: the
\* short-circuit loop exits, and while the loop runs the number of iterations made
\* is at most the index i, which is at most len(program).
C2_AtMostLenSteps ==
  \A k \in Evals :
    LET s == evs[k] IN
      /\ s.pc # "spin"
      /\ s.steps <= Size0
      /\ s.pc = "run" => (s.steps <= s.i /\ s.i <= Size0)

\* C2 witness: a run without any failure has returned after a short-circuit jump
\* over several nodes of a program whose jumps go forward.
C2_Witness ==
  \E k \in Evals :
    /\ evs[k].pc = "done" /\ NoFailure(evs[k]) /\ ForwardJumps
    /\ evs[k].i >= Size0 /\ evs[k].steps > 1 /\ evs[k].steps + 1 < Size0
    /\ \E j \in Idx : NodeAt(labNodes, j).scPos > j

\* C3: a failed lookup or operator call is the last call Eval makes, and Eval has
\* returned its error.
C3_ErrorAborts ==
  \A k \in Evals :
    LET s == evs[k] IN
      \A j \in 1..Len(s.log) :
        IsErr(s.log[j].err) =>
          /\ j = Len(s.log)
          /\ s.pc = "done"
          /\ s.err = s.log[j].err

\* C3 witness: the lookup of the second inline operand of a fastOperator failed
\* after the first one succeeded.
C3_Witness ==
  \E k \in Evals :
    LET s == evs[k] IN
      /\ s.pc = "done" /\ IsErr(s.err)
      /\ Len(s.log) >= 2
      /\ s.log[Len(s.log)].kind = "get"
      /\ NodeType(NodeAt(labNodes, s.i)) = fastOperator
      /\ s.log[Len(s.log)].node = s.i + 2
      /\ s.log[Len(s.log) - 1].node = s.i + 1

\* C4: no lookup and no operator call is made while the cancellation handle of
\* the Ctx is cancelled, and a call cancelled before it returned ends in an error.
C4_CancelStops ==
  \A k \in Evals :
    LET s == evs[k] IN
      /\ \A j \in 1..Len(s.log) : IsCall(s.log[j]) => ~s.log[j].cancelled
      /\ (s.pc = "done" /\ ctxs[k].cancelled) => IsErr(s.err)

\* C5: when the loop ends with osTop # 0, Eval returns an error.
C5_ExitAssertsOsTop ==
  \A k \in Evals :
    LET s == evs[k] IN
      (s.pc = "done" /\ s.i >= Size0 /\ s.osTop # 0) => IsErr(s.err)

\* C6: an iteration that dispatches a cond node invokes the operator of the node.
C6_CondInvokesOperator ==
  [][ \A k \in Evals :
        ( /\ evs[k].pc = "run"
          /\ evs[k].i < Size0
          /\ NodeType(NodeAt(labNodes, evs[k].i)) = cond
          /\ evs'[k] # evs[k] )
        => /\ Len(evs'[k].log) = Len(evs[k].log) + 1
           /\ evs'[k].log[Len(evs'[k].log)].kind = "op"
           /\ evs'[k].log[Len(evs'[k].log)].node = evs[k].i ]_vars

\* C7: Eval leaves the Program as the layout made it, and each of the concurrent
\* evaluations returns the value and the error it returns when run alone.
C7_ConcurrentAsAlone ==
  /\ labNodes = Layout(ast, fastEval)
  /\ \A k \in Evals :
       evs[k].pc # "run" =>
         LET nodes == Layout(ast, fastEval)
             a == RunAlone(nodes, ctxs[k], EvalStart(nodes, StackSize(nodes)))
         IN /\ evs[k].pc = a.pc
            /\ evs[k].ret = a.ret
            /\ evs[k].err = a.err

\* C7 witness: one evaluation aborted with an error, the other one, with another
\* Ctx, returned a value after several iterations.
C7_Witness ==
  /\ evs[1].pc = "done" /\ IsErr(evs[1].err)
  /\ evs[2].pc = "done" /\ ~IsErr(evs[2].err) /\ evs[2].steps >= 2
  /\ ctxs[1] # ctxs[2]

-----------------------------------------------------------------------------
(* The claims about the parser.                                            *)

\* the running depth after the first j tokens of T
Depth(T, j) ==
  Cardinality({h \in 1..j : T[h].typ = "lParen"})
    - Cardinality({h \in 1..j : T[h].typ = "rParen"})

WellParen(T) ==
  /\ Len(T) > 0
  /\ T[1].typ = "lParen"
  /\ T[Len(T)].typ = "rParen"
  /\ \A j \in 1..Len(T) : Depth(T, j) >= 0 /\ (j < Len(T) => Depth(T, j) # 0)

\* C8: for every token sequence left after the comments are dropped, the
\* parenthesis check accepts or returns a positional error, and it accepts
\* exactly the sequences that start with lParen, end with rParen and whose depth
\* is never negative and never zero before the last token.
C8_ParenCheck ==
  [][ (ppc = "start" /\ ppc' # "start") =>
        IF WellParen(DropComments(ptokens))
        THEN ppc' = "expr"
        ELSE /\ ppc' = "done"
             /\ pres'.st = "err"
             /\ pres'.err = "parentheses unmatched error" ]_vars

\* the node a bare identifier resolves to, by the precedence of the claim
Resolves(name, conf) ==
  \/ name \in BuiltinConstants
  \/ name \in conf.constants
  \/ name \in conf.selectors
  \/ conf.allowUnknown

Resolved(name, conf) ==
  IF name \in BuiltinConstants THEN valNode(BuiltinConstantValue(name))
  ELSE IF name \in conf.constants THEN valNode(ConstantMapValue(name))
  ELSE IF name \in conf.selectors
  THEN PNode(selector, name, SelectorMapKey(name), "", << >>, << >>)
  ELSE PNode(selector, name, UndefinedSelKey, "", << >>, << >>)

\* C9: an identifier in operand position becomes the built-in constant, else the
\* constant of the caller's map, else the selector of the caller's map, else,
\* when unknown selectors are allowed, a selector with the Undefined key and the
\* name as hint, and one token is consumed; else a positional error is returned
\* and no token is consumed.
C9_IdentPrecedence ==
  [][ ( /\ ppc = "loop"
        /\ HasTok(ptokens, pidx)
        /\ TokAt(ptokens, pidx).typ = "ident"
        /\ ppc' # ppc \/ pidx' # pidx )
      => LET t == TokAt(ptokens, pidx) IN
         IF Resolves(t.val, pconf)
         THEN /\ pidx' = pidx + 1
              /\ ppc' = "loop"
              /\ Len(pstack') = Len(pstack)
              /\ pstack'[Len(pstack)].kids
                   = Append(pstack[Len(pstack)].kids, Resolved(t.val, pconf))
         ELSE /\ pidx' = pidx
              /\ ppc' = "done"
              /\ pres'.st = "err"
              /\ pres'.pos = t.pos ]_vars

\* C9 witness: a name of both the constant map and the selector map was parsed as
\* operand.
C9_Witness ==
  /\ ppc = "loop"
  /\ "x" \in pconf.constants /\ "x" \in pconf.selectors
  /\ pstack # << >>
  /\ LET ks == pstack[Len(pstack)].kids IN
       /\ ks # << >>
       /\ ks[Len(ks)] = valNode(ConstantMapValue("x"))
       /\ TokAt(ptokens, pidx - 1).val = "x"

\* the node an accepted (if c t e) is built to
IsConditional(n, children) ==
  /\ n.flag = cond
  /\ n.value = "if"
  /\ Len(n.kids) = 4
  /\ SubSeq(n.kids, 1, 3) = children
  /\ n.kids[4].flag = cond /\ n.kids[4].value = "fi" /\ n.kids[4].kids = << >>
  /\ \A ps \in SeqsUpTo({"T", "F", "n1"}, 2) :
       ApplyOp(n.kids[4].op, ps) = [res |-> "T", err |-> NoErr]
  /\ \A v \in {"T", "F", "n1"} : \A w \in SeqsUpTo({"T", "n1"}, 1) :
       LET r == ApplyOp(n.op, <<v>> \o w) IN
         IF IsBool(v)
         THEN r = [res |-> IF v = "T" THEN "F" ELSE "T", err |-> NoErr]
         ELSE IsErr(r.err)

\* C10: a form with head if is accepted exactly when it has three children, any
\* other count is a positional parameter-count error; the node built has the
\* three children in order followed by fi, whose operator returns true, and its
\* own operator negates a boolean first parameter and fails on any other.
C10_IfArity ==
  [][ ( /\ ppc = "loop"
        /\ HasTok(ptokens, pidx)
        /\ TokAt(ptokens, pidx).typ = "rParen"
        /\ pstack # << >>
        /\ pstack[Len(pstack)].car.val = "if"
        /\ ppc' # ppc \/ pidx' # pidx )
      => LET top == pstack[Len(pstack)] IN
         IF Len(top.kids) = 3
         THEN /\ pres'.st # "err"
              /\ Len(pstack') = Len(pstack) - 1
              /\ IF Len(pstack) = 1
                 THEN ppc' = "done" /\ pres'.st = "ok" /\ IsConditional(pres'.root, top.kids)
                 ELSE LET ks == pstack'[Len(pstack')].kids IN
                        ppc' = "loop" /\ IsConditional(ks[Len(ks)], top.kids)
         ELSE /\ ppc' = "done"
              /\ pres'.st = "err"
              /\ pres'.err = "parameters count error"
              /\ pres'.pos = top.car.pos ]_vars

\* C10 witness: an if with three children, one of them a compound form, was
\* accepted.
C10_Witness ==
  /\ ppc = "done" /\ pres.st = "ok"
  /\ pres.root.flag = cond /\ Len(pres.root.kids) = 4
  /\ \E j \in 1..3 : pres.root.kids[j].flag = operator

\* an if with four children was rejected
C10_WitnessRejected ==
  /\ ppc = "done" /\ pres.st = "err" /\ pres.err = "parameters count error"
  /\ Len(pstack) = 1 /\ Len(pstack[1].kids) = 4

-----------------------------------------------------------------------------
(* Helpers of the properties of the configuration header.                  *)

\* the leading run of comment tokens
RECURSIVE LeadingRun(_)
LeadingRun(T) ==
  IF T = << >> \/ Head(T).typ # "comment" THEN << >>
  ELSE <<Head(T)>> \o LeadingRun(Tail(T))

IsDirective(t) == t.typ = "comment" /\ HasPrefix(TrimSpace(t.val), ConfigPrefix)

\* the fragments of the directives of the header, in the order of the source,
\* each with the position of its comment token
RECURSIVE FragsOf(_)
FragsOf(ds) ==
  IF ds = << >> THEN << >>
  ELSE LET fs == Split(TrimPrefix(TrimSpace(Head(ds).val), ConfigPrefix), ConfigSeparator)
       IN [j \in 1..Len(fs) |-> [frag |-> fs[j], pos |-> Head(ds).pos]] \o FragsOf(Tail(ds))
HeaderFrags(T) == FragsOf(SelectSeq(LeadingRun(T), IsDirective))

OptionNames == AllOptimizations \cup {Optimize}
FragName(f) == TrimSpace(Split(f, ":")[1])
FragValue(f) == ParseBool(TrimSpace(Split(f, ":")[2]))
\* the fragment is not option:boolean with a known option
Invalid(f) ==
  \/ Len(Split(f, ":")) # 2
  \/ ~FragValue(f).ok
  \/ FragName(f) \notin {<<o>> : o \in OptionNames}
\* the fragment sets option o (itself, or by optimize) to v
Sets(f, o, v) ==
  /\ ~Invalid(f)
  /\ FragName(f) \in {<<o>>, <<Optimize>>}
  /\ FragValue(f).val = v
AllEnabled(conf) == \A o \in AllOptimizations : conf.options[o]
ConfigErrors == {"invalid compile format", "invalid config value", "unsupported compile config"}

\* C11 as stated: when the header holds a directive that enables optimize, the
\* options parseConfig installs have every optimization enabled, whatever other
\* directives stand before or after it.
C11_OptimizeEnablesAll ==
  [][ ( /\ ppc = "conf" /\ ppc' = "start"
        /\ \E j \in 1..Len(HeaderFrags(ptokens)) :
             Sets(HeaderFrags(ptokens)[j].frag, Optimize, TRUE) )
      => AllEnabled(pconf') ]_vars

\* C11, amended: when the header holds a directive that enables optimize and no
\* fragment after it in the header switches optimize or an optimization off, the
\* options parseConfig installs have every optimization enabled, whatever the
\* configuration was before and whatever directives stand before it.
C11_OptimizeEnablesAllUnlessDisabledLater ==
  [][ ( /\ ppc = "conf" /\ ppc' = "start"
        /\ \E j \in 1..Len(HeaderFrags(ptokens)) :
             /\ Sets(HeaderFrags(ptokens)[j].frag, Optimize, TRUE)
             /\ \A h \in (j + 1)..Len(HeaderFrags(ptokens)) : \A o \in OptionNames :
                  ~Sets(HeaderFrags(ptokens)[h].frag, o, FALSE) )
      => AllEnabled(pconf') ]_vars

\* C11 witness: parseConfig has run on a header of several fragments that enables
\* optimize, starting from a configuration with every optimization off
C11_Witness ==
  /\ ppc = "start"
  /\ Len(HeaderFrags(ptokens)) >= 2
  /\ \E j \in 1..Len(HeaderFrags(ptokens)) : Sets(HeaderFrags(ptokens)[j].frag, Optimize, TRUE)
  /\ callerConf.options = NoOptions
  /\ AllEnabled(pconf)

\* C12: a fragment of a directive of the leading comment run that does not split
\* by ":" in two, whose value is no boolean or whose option is unknown makes
\* parseConfig return a positional error at the comment token of the first such
\* fragment; nothing runs afterwards: the tokens keep their comments, p.idx is 0
\* and no syntax tree is built.
C12_BadFragmentStops ==
  [][ ( /\ ppc = "conf"
        /\ \E j \in 1..Len(HeaderFrags(ptokens)) : Invalid(HeaderFrags(ptokens)[j].frag) )
      => LET fs == HeaderFrags(ptokens)
             j == CHOOSE j \in 1..Len(fs) :
                    Invalid(fs[j].frag) /\ \A h \in 1..(j - 1) : ~Invalid(fs[h].frag)
         IN /\ ppc' = "done"
            /\ pres'.st = "err"
            /\ pres'.err \in ConfigErrors
            /\ pres'.pos = fs[j].pos
            /\ pres'.root = NoPNode
            /\ ptokens' = ptokens /\ pidx' = 0 /\ pstack' = << >> ]_vars

\* C12 witness: parseConfig returned the error of an unknown option that stands
\* in the second comment of the header, before a well-formed body
C12_Witness ==
  /\ ppc = "done"
  /\ pres.err = "unsupported compile config"
  /\ pres.pos = 1
  /\ \E j \in 1..Len(ptokens) : ptokens[j].typ = "lParen"

\* the positions of the source at which a token "(" or ")" stands
RoundParens ==
  {ptokens[j].pos : j \in {h \in 1..Len(ptokens) :
                             ptokens[h].typ \in {"lParen", "rParen"}
                             /\ ptokens[h].val \in {<<"(">>, <<")">>}}}
\* the source with "[" for "(" and "]" for ")" at the positions of S
Bracketed(A, S) ==
  [j \in 1..Len(A) |-> IF (j - 1) \in S THEN (IF A[j] = "(" THEN "[" ELSE "]") ELSE A[j]]
SameKinds(T, U) ==
  /\ Len(T) = Len(U)
  /\ \A j \in 1..Len(T) :
       /\ T[j].typ = U[j].typ
       /\ T[j].typ \notin {"lParen", "rParen"} => T[j].val = U[j].val

\* C13: when a source lexes, the source with "[" for any of its "(" and "]" for
\* any of its ")" (outside strings and comments) lexes too, to the same token
\* kinds and the same texts of the tokens that are no parentheses.
C13_BracketsAsParens ==
  ppc = "lexed" =>
    \A S \in SUBSET RoundParens :
      /\ lex(Bracketed(psource, S)).st = "ok"
      /\ SameKinds(ptokens, lex(Bracketed(psource, S)).tokens)

-----------------------------------------------------------------------------
(* Helpers of the properties of single steps of Eval.                      *)

\* evaluation k makes an iteration at a node of type typ that yields a result
Yields(k, typ) ==
  /\ evs[k].pc = "run"
  /\ evs[k].i < Size0
  /\ NodeType(NodeAt(labNodes, evs[k].i)) = typ
  /\ evs'[k] # evs[k]
  /\ evs'[k].pc \in {"run", "done"}
  /\ evs'[k].err = NoErr

\* the index i has and the stack top osTop has when the result is tested
IndexAtTest(s) == IF NodeType(NodeAt(labNodes, s.i)) = fastOperator THEN s.i + 2 ELSE s.i
TopAtTest(s) ==
  IF NodeType(NodeAt(labNodes, s.i)) = operator
  THEN s.osTop - NodeAt(labNodes, s.i).child
  ELSE s.osTop

Matches(j, r) ==
  \/ r = "F" /\ (NodeAt(labNodes, j).flag \div scIfFalse) % 2 = 1
  \/ r = "T" /\ (NodeAt(labNodes, j).flag \div scIfTrue) % 2 = 1

\* where the chain of jumps from node j with result r stops: -1, or the first
\* target whose flags do not match r
RECURSIVE Landing(_, _)
Landing(j, r) ==
  IF Matches(j, r)
  THEN IF NodeAt(labNodes, j).scPos = -1 THEN -1 ELSE Landing(NodeAt(labNodes, j).scPos, r)
  ELSE j

\* the events the step from s to t appended
NewEvents(s, t) == {t.log[j] : j \in (Len(s.log) + 1)..Len(t.log)}

\* C14: after a step at node c with result r, a jump is taken only if r is boolean
\* and matches a short-circuit flag of c.  The chain of jumps ends with the return
\* of r and no error when a scPos is -1; otherwise it stops at the first target t
\* whose flags do not match r: t is not invoked, r is stored at os[t.osTop+1] and
\* the next node dispatched is t+1.
C14_ShortCircuitJump ==
  [][ \A k \in Evals : \A typ \in {constant, selector, operator, fastOperator} :
        Yields(k, typ) =>
          LET s == evs[k]
              t == evs'[k]
              r == t.res
              land == Landing(s.i, r)
          IN IF ~Matches(s.i, r)
             THEN /\ t.pc = "run"
                  /\ t.i = IndexAtTest(s) + 1
                  /\ t.osTop = TopAtTest(s) + 1
                  /\ t.os[t.osTop + 1] = r
             ELSE /\ IsBool(r)
                  /\ IF land = -1
                     THEN t.pc = "done" /\ t.ret = r /\ t.err = NoErr
                     ELSE /\ t.pc = "run"
                          /\ t.i = land + 1
                          /\ t.osTop = NodeAt(labNodes, land).osTop + 1
                          /\ t.os[t.osTop + 1] = r
                          /\ \A e \in NewEvents(s, t) : e.node # land ]_vars

\* C14 witness: a chain of two jumps has stopped at the operator before node i,
\* which was not invoked, with the stack cut back to its osTop
C14_Witness ==
  \E k \in Evals :
    LET s == evs[k] IN
    /\ s.pc = "run" /\ s.i >= 1 /\ s.i < Size0
    /\ NodeType(NodeAt(labNodes, s.i - 1)) = operator
    /\ \A j \in 1..Len(s.log) : s.log[j].node # s.i - 1
    /\ \E j \in Idx : j < s.i - 1 /\ NodeAt(labNodes, j).scPos = s.i - 1
                      /\ \A h \in 1..Len(s.log) : s.log[h].node # j
    /\ s.osTop = NodeAt(labNodes, s.i - 1).osTop + 1
    /\ s.os[s.osTop + 1] = "F"

\* evaluation k dispatches a node of type typ and does not panic
Dispatches(k, typ) ==
  /\ evs[k].pc = "run"
  /\ evs[k].i < Size0
  /\ NodeType(NodeAt(labNodes, evs[k].i)) = typ
  /\ evs'[k] # evs[k]
  /\ evs'[k].pc # "panic"

\* C15: the dispatch of an operator node with child count cnt passes the operator
\* the cnt values on top of the stack, the lowest first; when no short circuit is
\* taken the stack is afterwards cnt - 1 values lower, with the result on top and
\* the values below the operands as they were.
C15_OperatorParams ==
  [][ \A k \in Evals :
        Dispatches(k, operator) =>
          LET s == evs[k]
              t == evs'[k]
              cnt == NodeAt(labNodes, s.i).child
              e == t.log[Len(t.log)]
          IN /\ Len(t.log) = Len(s.log) + 1
             /\ e.kind = "op" /\ e.node = s.i
             /\ Len(e.params) = cnt
             /\ \A j \in 0..(cnt - 1) : e.params[j + 1] = s.os[(s.osTop - cnt + 1 + j) + 1]
             /\ (~IsErr(e.err) /\ ~Matches(s.i, e.res)) =>
                  /\ t.pc = "run"
                  /\ t.osTop = s.osTop - cnt + 1
                  /\ t.os[t.osTop + 1] = e.res
                  /\ \A x \in 0..(s.osTop - cnt) : t.os[x + 1] = s.os[x + 1] ]_vars

\* C15 witness: an operator with two operands was called with the values true and
\* false, in this order, and its result was pushed
C15_Witness ==
  \E k \in Evals :
    LET s == evs[k] IN
    /\ s.pc = "run" /\ s.i >= 1
    /\ NodeType(NodeAt(labNodes, s.i - 1)) = operator
    /\ Len(s.log) >= 1
    /\ s.log[Len(s.log)].node = s.i - 1
    /\ s.log[Len(s.log)].params = <<"T", "F">>
    /\ s.os[s.osTop + 1] = s.log[Len(s.log)].res

\* position j holds an inline operand of a fastOperator
Inline(j) ==
  \/ j >= 1 /\ NodeType(NodeAt(labNodes, j - 1)) = fastOperator
  \/ j >= 2 /\ NodeType(NodeAt(labNodes, j - 2)) = fastOperator

\* C16: the dispatch of a fastOperator at i resolves position i+1 and then
\* position i+2, each by ctx.Get when it is a selector and as its stored value
\* otherwise, and calls the operator with the pair (left, right).  The stack is
\* neither read nor written for the operands: only the result is pushed, and
\* without a short circuit the next node dispatched is i+3.  No node is ever
\* dispatched at an inline position.
C16_FastOperatorInline ==
  [][ \A k \in Evals :
        /\ (evs'[k].pc = "run" /\ evs'[k].i < Size0) => ~Inline(evs'[k].i)
        /\ Dispatches(k, fastOperator) =>
             LET s == evs[k]
                 t == evs'[k]
                 c1 == NodeAt(labNodes, s.i + 1)
                 c2 == NodeAt(labNodes, s.i + 2)
                 sel1 == NodeType(c1) = selector
                 sel2 == NodeType(c2) = selector
                 left == IF sel1 THEN ctxs[k].sel[c1.value] ELSE c1.value
                 right == IF sel2 THEN ctxs[k].sel[c2.value] ELSE c2.value
                 ok1 == ~(sel1 /\ left = "errGet")
                 ok2 == ok1 /\ ~(sel2 /\ right = "errGet")
                 calls == (IF sel1 THEN <<[kind |-> "get", node |-> s.i + 1]>> ELSE << >>)
                          \o (IF ok1 /\ sel2 THEN <<[kind |-> "get", node |-> s.i + 2]>>
                              ELSE << >>)
                          \o (IF ok2 THEN <<[kind |-> "op", node |-> s.i]>> ELSE << >>)
                 e == t.log[Len(t.log)]
             IN /\ Len(t.log) = Len(s.log) + Len(calls)
                /\ \A j \in 1..Len(calls) :
                     /\ t.log[Len(s.log) + j].kind = calls[j].kind
                     /\ t.log[Len(s.log) + j].node = calls[j].node
                /\ ~ok2 => t.pc = "done" /\ t.err = "errGet" /\ t.os = s.os
                /\ ok2 => e.params = <<left, right>>
                /\ (ok2 /\ ~IsErr(e.err) /\ ~Matches(s.i, e.res)) =>
                     /\ t.pc = "run"
                     /\ t.i = s.i + 3
                     /\ t.osTop = s.osTop + 1
                     /\ t.os = [s.os EXCEPT ![s.osTop + 2] = e.res] ]_vars

\* C16 witness: a fastOperator with two selector operands was dispatched: both
\* lookups were made, the left one first, the operator got (true, false) and the
\* loop stands three positions further
C16_Witness ==
  \E k \in Evals :
    LET s == evs[k]
        n == Len(s.log)
    IN /\ s.pc = "run" /\ s.i >= 3 /\ n >= 3
       /\ NodeType(NodeAt(labNodes, s.i - 3)) = fastOperator
       /\ s.log[n - 2].kind = "get" /\ s.log[n - 2].node = s.i - 2
       /\ s.log[n - 1].kind = "get" /\ s.log[n - 1].node = s.i - 1
       /\ s.log[n].kind = "op" /\ s.log[n].node = s.i - 3
       /\ s.log[n].params = <<"T", "F">>

\* C17: whenever Eval dispatches node i, reached in sequence or after a short
\* circuit landed on an earlier node, the stack top osTop is the osTop of node i.
C17_DepthAtDispatch ==
  \A k \in Evals :
    (evs[k].pc = "run" /\ evs[k].i < Size0) =>
      evs[k].osTop = NodeAt(labNodes, evs[k].i).osTop

\* the header changes an option of the configuration conf
ChangesOption(T, conf) ==
  \E j \in 1..Len(HeaderFrags(T)) : \E o \in AllOptimizations :
    Sets(HeaderFrags(T)[j].frag, o, ~conf.options[o])

\* C18: parseConfig reads the leading run of comment tokens only: its outcome is
\* the outcome on the directives of that run alone, so a directive after the
\* first token that is no comment changes no option and raises no error, and a
\* leading comment without the prefix does not end the run.  parseAstTree then
\* removes every comment token and keeps the order of the others.
C18_LeadingRunOnly ==
  [][ /\ ppc = "conf" =>
           LET r == parseConfig(SelectSeq(LeadingRun(ptokens), IsDirective), pconf) IN
           /\ (\A j \in 1..Len(HeaderFrags(ptokens)) : ~Invalid(HeaderFrags(ptokens)[j].frag))
                => ppc' = "start"
           /\ (ppc' = "start") = (r.st = "ok")
           /\ r.st = "ok" => pconf' = r.work.conf
           /\ r.st # "ok" => pres'.err = r.err /\ pres'.pos = r.pos
           /\ ~ChangesOption(ptokens, pconf) => pconf'.options = pconf.options
      /\ ppc = "start" =>
           /\ ptokens' = SelectSeq(ptokens, LAMBDA t : t.typ # "comment")
           /\ UNCHANGED pconf ]_vars

\* C18 witness: parseConfig accepted a header in which a comment without the
\* prefix stands before a directive that changed an option, followed by a body
\* that holds a malformed directive and a well-formed one
C18_Witness ==
  /\ ppc = "start"
  /\ Len(ptokens) >= 3
  /\ ptokens[1].typ = "comment" /\ ~IsDirective(ptokens[1])
  /\ IsDirective(ptokens[2])
  /\ pconf.options # callerConf.options
  /\ ~AllEnabled(pconf)
  /\ \E j \in 1..Len(ptokens) :
       /\ IsDirective(ptokens[j])
       /\ \E h \in 1..(j - 1) : ptokens[h].typ # "comment"
       /\ Invalid(TrimPrefix(TrimSpace(ptokens[j].val), ConfigPrefix))

\* the value option o has after the fragments fs were applied from left to right
\* to a configuration in which it was init: that of the last fragment that sets it
LastSetting(fs, o, init) ==
  LET setters == {j \in 1..Len(fs) : Sets(fs[j].frag, o, TRUE) \/ Sets(fs[j].frag, o, FALSE)}
  IN IF setters = {} THEN init
     ELSE LET j == CHOOSE j \in setters : \A h \in setters : h <= j
          IN Sets(fs[j].frag, o, TRUE)

\* C20: parseConfig never modifies the CompileConfig of the caller; when it
\* returns an error the configuration of the parser is the one it had before;
\* when it succeeds the configuration installed is the former one with the
\* fragments of the header applied from left to right.
C20_ConfigCopy ==
  [][ /\ callerConf' = callerConf
      /\ (ppc = "conf" /\ ppc' = "done") => pconf' = pconf
      /\ (ppc = "conf" /\ ppc' = "start") =>
           pconf' = [pconf EXCEPT !.options =
                       [o \in AllOptimizations |->
                          LastSetting(HeaderFrags(ptokens), o, pconf.options[o])]] ]_vars

\* C20 witness: parseConfig returned an error for a header whose first fragment
\* is valid and sets an option to a new value
C20_Witness ==
  /\ ppc = "done"
  /\ pres.err \in ConfigErrors
  /\ Len(HeaderFrags(ptokens)) >= 2
  /\ \E o \in AllOptimizations : Sets(HeaderFrags(ptokens)[1].frag, o, ~pconf.options[o])
  /\ pconf = callerConf

\* the invariants of the layout C19 assumes
LayoutInvariants ==
  /\ \A j \in Idx : maxStackSize >= NodeAt(labNodes, j).osTop + 1
  /\ \A j \in Idx : NodeType(NodeAt(labNodes, j)) = fastOperator => j + 2 <= Size0 - 1
  /\ \A j \in Idx : NodeType(NodeAt(labNodes, j)) = operator =>
       NodeAt(labNodes, j).child <= NodeAt(labNodes, j).osTop + 1 + NodeAt(labNodes, j).child

\* C19: for a Program that satisfies the layout invariants Eval keeps osTop at or
\* above -1 and below the length of the value stack, and reads and writes no
\* index outside the value stack or the Program (it never panics), with each of
\* the three buffers.
C19_BuffersInBounds ==
  LayoutInvariants =>
    \A k \in Evals :
      /\ evs[k].pc # "panic"
      /\ evs[k].osTop >= -1
      /\ evs[k].osTop <= Len(evs[k].os) - 1
      /\ evs[k].pc = "run" => evs[k].i \in 0..Size0

\* the expressions without a conditional stay in bounds, with the buffers of 8, 16
\* and len(program) slots
C19_NoConditionalInBounds ==
  (\A j \in Idx : NodeType(NodeAt(labNodes, j)) # cond) => C19_BuffersInBounds

====
